---------------------------- MODULE Spec2Model ----------------------------
(***************************************************************************)
(* A model of the outbound-guard library: the RollingWindow, the          *)
(* CircuitBreaker, the ConcurrencyLimiter and the ResilientHttpClient     *)
(* request pipeline that composes them.                                   *)
(*                                                                         *)
(* The specifications share the variables:                                 *)
(*   SpecBr   the CircuitBreaker driven directly through its API,         *)
(*   SpecLim  the ConcurrencyLimiter driven directly through its API,     *)
(*   Spec     ResilientHttpClient.request() running NReq requests.        *)
(*   SpecWin  a RollingWindow driven directly through its API.             *)
(***************************************************************************)
EXTENDS Integers, Sequences, FiniteSets, TLC

VARIABLES
    breaker,    \* CircuitBreaker: [opts, buckets]; buckets is the Map key -> BreakerBucket
    limiter,    \* ConcurrencyLimiter: [maxInFlight, maxQueue, inFlight, queue]
    promise,    \* per acquire() call: the state of the promise acquire() returned
    timer,      \* per acquire() call: the state of the waiter's setTimeout timer
    now,        \* the clock (Date.now() / the injected nowMs)
    calls,      \* SpecBr: allowed calls that have not reported a result, per key and admitting state
    arrival,    \* history: the queued waiters in the order of their queue.push
    req,        \* Spec: each request() call: where it is, its locals and what it has done
    ret,        \* the operation of the last step, its arguments and what it returned
    win         \* SpecWin: a RollingWindow on its own, and the values pushed since its reset

vars == <<breaker, limiter, promise, timer, now, calls, arrival, req, ret, win>>

----------------------------------------------------------------------------
(* Bounds of the model *)

\* The clock runs from 0 to MaxTime.
MaxTime == 3

\* SpecBr: at most MaxCalls allowed calls are outstanding at once.
MaxCalls == 3

\* SpecLim: the number of concurrent callers of acquire().
NCallers == 4

\* Spec: the number of concurrent request() calls.
NReq == 3

\* SpecWin: the window holds up to MaxWindowSize results and is pushed up to
\* MaxPushes times between two resets.
MaxWindowSize == 3

MaxPushes == 5

Keys == {"a", "b"}

Callers == 1..NCallers

Requests == 1..NReq

\* The ids of acquire() calls: one outstanding call per caller or request.
Ids == 1..(IF NCallers > NReq THEN NCallers ELSE NReq)

\* `undefined`, for openedAtMs and retryAfterMs
Undefined == -1

Max(a, b) == IF a > b THEN a ELSE b

----------------------------------------------------------------------------
(* RollingWindow (src/src/utils/rollingWindow.ts) *)

\* constructor: buf = new Array(size).fill(0), idx = 0, filled = false
RollingWindow(size) ==
    [size |-> size, buf |-> [i \in 0..(size - 1) |-> 0], idx |-> 0, filled |-> FALSE]

push(w, value) ==
    LET i == (w.idx + 1) % w.size
    IN  [w EXCEPT !.buf[w.idx] = value,
                  !.idx = i,
                  !.filled = IF i = 0 THEN TRUE ELSE @]

\* count() that reads idx whether or not the buffer has wrapped
count_ignoresFilled(w) == w.idx

count(w) == IF w.filled THEN w.size ELSE w.idx

\* for (let i = 0; i < n; i++) sum += buf[i]
RECURSIVE SumBuf(_, _)
SumBuf(buf, n) == IF n = 0 THEN 0 ELSE buf[n - 1] + SumBuf(buf, n - 1)

failures(w) == SumBuf(w.buf, count(w))

\* failures / n as the fraction [num, den]; 0 when n = 0
failureRate(w) ==
    IF count(w) = 0 THEN [num |-> 0, den |-> 1]
    ELSE [num |-> failures(w), den |-> count(w)]

reset(w) == [w EXCEPT !.idx = 0, !.filled = FALSE, !.buf = [i \in DOMAIN @ |-> 0]]

\* p >= q for fractions with positive denominators
FracGE(p, q) == p.num * q.den >= q.num * p.den

----------------------------------------------------------------------------
(* CircuitBreaker (src/src/types.ts) *)

\* The BreakerOptions the breaker is constructed with; all pass the
\* constructor's validation.  failureThreshold is a fraction.
BreakerOptsSet ==
    { [windowSize |-> 2, minRequests |-> 2, failureThreshold |-> [num |-> 1, den |-> 2],
       cooldownMs |-> 2, halfOpenProbeCount |-> 2],
      [windowSize |-> 2, minRequests |-> 1, failureThreshold |-> [num |-> 1, den |-> 1],
       cooldownMs |-> 1, halfOpenProbeCount |-> 1] }

NewBucket(opts) ==
    [state |-> "CLOSED",
     openedAtMs |-> Undefined,
     halfOpenInFlight |-> 0,
     window |-> RollingWindow(opts.windowSize),
     halfOpenSuccesses |-> 0,
     halfOpenFailures |-> 0]

\* bucket(key): the breaker with the bucket of key created when missing
bucket(B, key) ==
    IF key \in DOMAIN B.buckets THEN B
    ELSE [B EXCEPT !.buckets = (key :> NewBucket(B.opts)) @@ @]

toOpen(b, nowMs) ==
    [b EXCEPT !.state = "OPEN",
              !.openedAtMs = nowMs,
              !.halfOpenInFlight = 0,
              !.halfOpenSuccesses = 0,
              !.halfOpenFailures = 0]

\* toHalfOpen without `b.openedAtMs = undefined`
toHalfOpen_keepsOpenedAt(b) ==
    [b EXCEPT !.state = "HALF_OPEN",
              !.halfOpenInFlight = 0,
              !.halfOpenSuccesses = 0,
              !.halfOpenFailures = 0]

toHalfOpen(b) ==
    [b EXCEPT !.state = "HALF_OPEN",
              !.openedAtMs = Undefined,
              !.halfOpenInFlight = 0,
              !.halfOpenSuccesses = 0,
              !.halfOpenFailures = 0]

\* toClosed without window.reset()
toClosed_keepWindow(b) ==
    [b EXCEPT !.state = "CLOSED",
              !.openedAtMs = Undefined,
              !.halfOpenInFlight = 0,
              !.halfOpenSuccesses = 0,
              !.halfOpenFailures = 0]

toClosed(b) ==
    [b EXCEPT !.state = "CLOSED",
              !.openedAtMs = Undefined,
              !.window = reset(@),
              !.halfOpenInFlight = 0,
              !.halfOpenSuccesses = 0,
              !.halfOpenFailures = 0]

BreakerDecision(allowed, state, retryAfterMs) ==
    [allowed |-> allowed, state |-> state, retryAfterMs |-> retryAfterMs]

\* `remaining > 0` taken as `remaining > 1`: the cooldown ends 1 ms early
cooling_early(remaining) == remaining > 1

\* `remaining > 0` taken as `remaining >= 0`: the cooldown ends 1 ms late
cooling_late(remaining) == remaining >= 0

\* if (remaining > 0): the key is still in its cooldown
cooling(remaining) == remaining > 0

\* allow() testing the probe slots with `>` for `>=`: one probe too many
allow_probeOffByOne(B, key, nowMs) ==
    LET B1 == bucket(B, key)
        b  == B1.buckets[key]
        elapsed   == nowMs - (IF b.openedAtMs = Undefined THEN nowMs ELSE b.openedAtMs)
        remaining == B.opts.cooldownMs - elapsed
    IN  IF b.state = "OPEN" /\ cooling(remaining)
        THEN [breaker |-> B1, decision |-> BreakerDecision(FALSE, "OPEN", remaining)]
        ELSE LET b2 == IF b.state = "OPEN" THEN toHalfOpen(b) ELSE b
             IN  IF b2.state = "HALF_OPEN"
                 THEN IF b2.halfOpenInFlight > B.opts.halfOpenProbeCount
                      THEN [breaker  |-> [B1 EXCEPT !.buckets[key] = b2],
                            decision |-> BreakerDecision(FALSE, "HALF_OPEN", 0)]
                      ELSE [breaker  |-> [B1 EXCEPT !.buckets[key] =
                                              [b2 EXCEPT !.halfOpenInFlight = @ + 1]],
                            decision |-> BreakerDecision(TRUE, "HALF_OPEN", Undefined)]
                 ELSE [breaker |-> B1, decision |-> BreakerDecision(TRUE, "CLOSED", Undefined)]

\* allow(key, nowMs): the breaker after the call and the BreakerDecision returned
allow(B, key, nowMs) ==
    LET B1 == bucket(B, key)
        b  == B1.buckets[key]
        elapsed   == nowMs - (IF b.openedAtMs = Undefined THEN nowMs ELSE b.openedAtMs)
        remaining == B.opts.cooldownMs - elapsed
    IN  IF b.state = "OPEN" /\ cooling(remaining)
        THEN [breaker |-> B1, decision |-> BreakerDecision(FALSE, "OPEN", remaining)]
        ELSE LET b2 == IF b.state = "OPEN" THEN toHalfOpen(b) ELSE b
             IN  IF b2.state = "HALF_OPEN"
                 THEN IF b2.halfOpenInFlight >= B.opts.halfOpenProbeCount
                      THEN [breaker  |-> [B1 EXCEPT !.buckets[key] = b2],
                            decision |-> BreakerDecision(FALSE, "HALF_OPEN", 0)]
                      ELSE [breaker  |-> [B1 EXCEPT !.buckets[key] =
                                              [b2 EXCEPT !.halfOpenInFlight = @ + 1]],
                            decision |-> BreakerDecision(TRUE, "HALF_OPEN", Undefined)]
                 ELSE [breaker |-> B1, decision |-> BreakerDecision(TRUE, "CLOSED", Undefined)]

Change(changed, from, to) == [changed |-> changed, from |-> from, to |-> to]

NoChange == Change(FALSE, "none", "none")

\* onSuccess() recording the success in the window while the key is OPEN too
onSuccess_countsWhenOpen(B, key) ==
    LET B1 == bucket(B, key)
        b  == B1.buckets[key]
    IN  IF b.state = "HALF_OPEN"
        THEN LET b2 == [b EXCEPT !.halfOpenInFlight = Max(0, @ - 1),
                                 !.halfOpenSuccesses = @ + 1]
             IN  IF b2.halfOpenSuccesses >= B.opts.halfOpenProbeCount
                 THEN [breaker |-> [B1 EXCEPT !.buckets[key] = toClosed(b2)],
                       change  |-> Change(TRUE, "HALF_OPEN", "CLOSED")]
                 ELSE [breaker |-> [B1 EXCEPT !.buckets[key] = b2], change |-> NoChange]
        ELSE [breaker |-> [B1 EXCEPT !.buckets[key].window = push(@, 0)], change |-> NoChange]

\* onSuccess() that closes an OPEN key: a late success ends the cooldown
onSuccess_closesWhenOpen(B, key) ==
    LET B1 == bucket(B, key)
        b  == B1.buckets[key]
    IN  IF b.state = "HALF_OPEN"
        THEN LET b2 == [b EXCEPT !.halfOpenInFlight = Max(0, @ - 1),
                                 !.halfOpenSuccesses = @ + 1]
             IN  IF b2.halfOpenSuccesses >= B.opts.halfOpenProbeCount
                 THEN [breaker |-> [B1 EXCEPT !.buckets[key] = toClosed(b2)],
                       change  |-> Change(TRUE, "HALF_OPEN", "CLOSED")]
                 ELSE [breaker |-> [B1 EXCEPT !.buckets[key] = b2], change |-> NoChange]
        ELSE IF b.state = "CLOSED"
        THEN [breaker |-> [B1 EXCEPT !.buckets[key].window = push(@, 0)], change |-> NoChange]
        ELSE [breaker |-> [B1 EXCEPT !.buckets[key] = toClosed(b)],
              change  |-> Change(TRUE, "OPEN", "CLOSED")]

\* onSuccess(key): the breaker after the call and the {changed, from, to} returned
onSuccess(B, key) ==
    LET B1 == bucket(B, key)
        b  == B1.buckets[key]
    IN  IF b.state = "HALF_OPEN"
        THEN LET b2 == [b EXCEPT !.halfOpenInFlight = Max(0, @ - 1),
                                 !.halfOpenSuccesses = @ + 1]
             IN  IF b2.halfOpenSuccesses >= B.opts.halfOpenProbeCount
                 THEN [breaker |-> [B1 EXCEPT !.buckets[key] = toClosed(b2)],
                       change  |-> Change(TRUE, "HALF_OPEN", "CLOSED")]
                 ELSE [breaker |-> [B1 EXCEPT !.buckets[key] = b2], change |-> NoChange]
        ELSE IF b.state = "CLOSED"
        THEN [breaker |-> [B1 EXCEPT !.buckets[key].window = push(@, 0)], change |-> NoChange]
        ELSE [breaker |-> B1, change |-> NoChange]

\* the failure rate compared with `>` for `>=`
thresholdReached_strict(w, opts) ==
    /\ count(w) >= opts.minRequests
    /\ ~FracGE(opts.failureThreshold, failureRate(w))

\* n >= minRequests && window.failureRate() >= failureThreshold
thresholdReached(w, opts) ==
    /\ count(w) >= opts.minRequests
    /\ FracGE(failureRate(w), opts.failureThreshold)

\* the HALF_OPEN branch recording the failure in the window as CLOSED does
onFailureHalfOpen_pushes(b, nowMs) ==
    toOpen([b EXCEPT !.halfOpenInFlight = Max(0, @ - 1),
                     !.halfOpenFailures = @ + 1,
                     !.window = push(@, 1)], nowMs)

\* onFailure's HALF_OPEN branch: the bucket b after it
onFailureHalfOpen(b, nowMs) ==
    toOpen([b EXCEPT !.halfOpenInFlight = Max(0, @ - 1),
                     !.halfOpenFailures = @ + 1], nowMs)

\* onFailure() with one state for the whole breaker: the failure that opens
\* its key opens every key
onFailure_opensAllKeys(B, key, nowMs) ==
    LET B1 == bucket(B, key)
        b  == B1.buckets[key]
    IN  IF b.state = "HALF_OPEN"
        THEN [breaker |-> [B1 EXCEPT !.buckets[key] = onFailureHalfOpen(b, nowMs)],
              change  |-> Change(TRUE, "HALF_OPEN", "OPEN")]
        ELSE IF b.state = "CLOSED"
        THEN LET b2 == [b EXCEPT !.window = push(@, 1)]
             IN  IF thresholdReached(b2.window, B.opts)
                 THEN [breaker |-> [B1 EXCEPT !.buckets =
                                       [j \in DOMAIN @ |->
                                           toOpen(IF j = key THEN b2 ELSE @[j], nowMs)]],
                       change  |-> Change(TRUE, "CLOSED", "OPEN")]
                 ELSE [breaker |-> [B1 EXCEPT !.buckets[key] = b2], change |-> NoChange]
        ELSE [breaker |-> B1, change |-> NoChange]

\* onFailure(key, nowMs)
onFailure(B, key, nowMs) ==
    LET B1 == bucket(B, key)
        b  == B1.buckets[key]
    IN  IF b.state = "HALF_OPEN"
        THEN [breaker |-> [B1 EXCEPT !.buckets[key] = onFailureHalfOpen(b, nowMs)],
              change  |-> Change(TRUE, "HALF_OPEN", "OPEN")]
        ELSE IF b.state = "CLOSED"
        THEN LET b2 == [b EXCEPT !.window = push(@, 1)]
             IN  IF thresholdReached(b2.window, B.opts)
                 THEN [breaker |-> [B1 EXCEPT !.buckets[key] = toOpen(b2, nowMs)],
                       change  |-> Change(TRUE, "CLOSED", "OPEN")]
                 ELSE [breaker |-> [B1 EXCEPT !.buckets[key] = b2], change |-> NoChange]
        ELSE [breaker |-> B1, change |-> NoChange]

----------------------------------------------------------------------------
(* ConcurrencyLimiter (src/docs/DESIGN.md holds src/limiter.ts) *)

\* The options the limiter is constructed with; all pass the constructor's
\* validation (maxInFlight > 0, maxQueue >= 0).
LimiterOptsSet ==
    { [maxInFlight |-> 1, maxQueue |-> 3],
      [maxInFlight |-> 2, maxQueue |-> 1],
      [maxInFlight |-> 1, maxQueue |-> 0] }

\* constructor: inFlight = 0, queue = []
ConcurrencyLimiter(opts) ==
    [maxInFlight |-> opts.maxInFlight, maxQueue |-> opts.maxQueue,
     inFlight |-> 0, queue |-> <<>>]

\* The limiter together with the promises and timers of its acquire() calls:
\* the state the limiter's methods and timer callbacks read and write.
LS == [limiter |-> limiter, promise |-> promise, timer |-> timer]

\* resolve() / reject(err) of a promise: only a pending promise settles
resolve(S, w) == IF S.promise[w] = "pending" THEN [S EXCEPT !.promise[w] = "resolved"] ELSE S

reject(S, w, err) == IF S.promise[w] = "pending" THEN [S EXCEPT !.promise[w] = err] ELSE S

\* queue.findIndex(x => x.resolve === resolve): 0-based, -1 when absent
findIndex(q, w) ==
    IF \E i \in 1..Len(q) : q[i] = w
    THEN (CHOOSE i \in 1..Len(q) : q[i] = w /\ \A j \in 1..(i - 1) : q[j] # w) - 1
    ELSE -1

\* queue.splice(idx, 1): the queue without its element at 0-based idx
splice(q, idx) == SubSeq(q, 1, idx) \o SubSeq(q, idx + 2, Len(q))

\* acquire() with the queue bound tested by `>` for `>=`
acquire_queueOffByOne(S, w) ==
    LET L == S.limiter
    IN  IF L.inFlight < L.maxInFlight
        THEN [S EXCEPT !.limiter.inFlight = @ + 1, !.promise[w] = "resolved"]
        ELSE IF L.maxQueue = 0 \/ Len(L.queue) > L.maxQueue
        THEN [S EXCEPT !.promise[w] = "QueueFull"]
        ELSE [S EXCEPT !.limiter.queue = Append(@, w),
                       !.promise[w] = "pending",
                       !.timer[w] = "armed"]

\* acquire() that never queues: it rejects whenever no permit is free
acquire_noQueue(S, w) ==
    LET L == S.limiter
    IN  IF L.inFlight < L.maxInFlight
        THEN [S EXCEPT !.limiter.inFlight = @ + 1, !.promise[w] = "resolved"]
        ELSE [S EXCEPT !.promise[w] = "QueueFull"]

\* acquire(), called as call w: the state after its synchronous part
acquire(S, w) ==
    LET L == S.limiter
    IN  IF L.inFlight < L.maxInFlight
        THEN [S EXCEPT !.limiter.inFlight = @ + 1, !.promise[w] = "resolved"]
        ELSE IF L.maxQueue = 0 \/ Len(L.queue) >= L.maxQueue
        THEN [S EXCEPT !.promise[w] = "QueueFull"]
        ELSE [S EXCEPT !.limiter.queue = Append(@, w),
                       !.promise[w] = "pending",
                       !.timer[w] = "armed"]

\* The timeout callback removing the head of the queue (queue.shift()) for
\* the waiter that timed out
onEnqueueTimeout_shift(S, w) ==
    LET S0  == [S EXCEPT !.timer[w] = "fired"]
        idx == findIndex(S0.limiter.queue, w)
        S1  == IF idx >= 0
               THEN [S0 EXCEPT !.limiter.queue = Tail(@),
                               !.timer[Head(S0.limiter.queue)] = "cleared"]
               ELSE S0
    IN  reject(S1, w, "QueueTimeout")

\* The timeout callback that rejects the waiter and leaves it in the queue
onEnqueueTimeout_noSplice(S, w) ==
    reject([S EXCEPT !.timer[w] = "fired"], w, "QueueTimeout")

\* The setTimeout callback of call w, run when its timer fires
onEnqueueTimeout(S, w) ==
    LET S0  == [S EXCEPT !.timer[w] = "fired"]
        idx == findIndex(S0.limiter.queue, w)
        S1  == IF idx >= 0
               THEN [S0 EXCEPT !.limiter.queue = splice(@, idx),
                               !.timer[S0.limiter.queue[idx + 1]] = "cleared"]
               ELSE S0
    IN  reject(S1, w, "QueueTimeout")

\* release() without its guard on inFlight <= 0
release_noGuard(S) ==
    LET L == S.limiter
    IN  IF Len(L.queue) > 0
        THEN LET next == Head(L.queue)
             IN  [state |-> resolve([S EXCEPT !.limiter.queue = Tail(@),
                                              !.timer[next] = "cleared"], next),
                  threw |-> FALSE]
        ELSE [state |-> [S EXCEPT !.limiter.inFlight = @ - 1], threw |-> FALSE]

\* release() that takes the permit back from the queue: with waiters queued
\* it reduces inFlight and wakes nobody
release_noHandoff(S) ==
    LET L == S.limiter
    IN  IF L.inFlight <= 0
        THEN [state |-> S, threw |-> TRUE]
        ELSE [state |-> [S EXCEPT !.limiter.inFlight = @ - 1], threw |-> FALSE]

\* release() that takes the head waiter off the queue and never wakes it
release_noResolve(S) ==
    LET L == S.limiter
    IN  IF L.inFlight <= 0
        THEN [state |-> S, threw |-> TRUE]
        ELSE IF Len(L.queue) > 0
        THEN LET next == Head(L.queue)
             IN  [state |-> [S EXCEPT !.limiter.queue = Tail(@), !.timer[next] = "cleared"],
                  threw |-> FALSE]
        ELSE [state |-> [S EXCEPT !.limiter.inFlight = @ - 1], threw |-> FALSE]

\* release() that pops the newest waiter for the oldest
release_pop(S) ==
    LET L == S.limiter
    IN  IF L.inFlight <= 0
        THEN [state |-> S, threw |-> TRUE]
        ELSE IF Len(L.queue) > 0
        THEN LET next == L.queue[Len(L.queue)]
             IN  [state |-> resolve([S EXCEPT !.limiter.queue = SubSeq(@, 1, Len(@) - 1),
                                              !.timer[next] = "cleared"], next),
                  threw |-> FALSE]
        ELSE [state |-> [S EXCEPT !.limiter.inFlight = @ - 1], threw |-> FALSE]

\* release() that reduces inFlight on a hand-off too
release_alwaysDecrement(S) ==
    LET L == S.limiter
    IN  IF L.inFlight <= 0
        THEN [state |-> S, threw |-> TRUE]
        ELSE IF Len(L.queue) > 0
        THEN LET next == Head(L.queue)
             IN  [state |-> resolve([S EXCEPT !.limiter.queue = Tail(@),
                                              !.limiter.inFlight = @ - 1,
                                              !.timer[next] = "cleared"], next),
                  threw |-> FALSE]
        ELSE [state |-> [S EXCEPT !.limiter.inFlight = @ - 1], threw |-> FALSE]

\* release(): the state after the call and whether it threw
release(S) ==
    LET L == S.limiter
    IN  IF L.inFlight <= 0
        THEN [state |-> S, threw |-> TRUE]
        ELSE IF Len(L.queue) > 0
        THEN LET next == Head(L.queue)
             IN  [state |-> resolve([S EXCEPT !.limiter.queue = Tail(@),
                                              !.timer[next] = "cleared"], next),
                  threw |-> FALSE]
        ELSE [state |-> [S EXCEPT !.limiter.inFlight = @ - 1], threw |-> FALSE]

\* The waiters in enqueue order: w is appended by the acquire() that queued
\* it and leaves when its promise settles.
Arrive(arr, S, w) == IF S.promise[w] = "pending" THEN Append(arr, w) ELSE arr

Depart(arr, S) == SelectSeq(arr, LAMBDA w : S.promise[w] = "pending")

----------------------------------------------------------------------------
(* What a step records in ret *)

RetNone ==
    [op |-> "none", key |-> "none", id |-> 0, nowMs |-> 0,
     allowed |-> FALSE, state |-> "none", retryAfterMs |-> Undefined,
     changed |-> FALSE, from |-> "none", to |-> "none",
     result |-> "none", ioCalls |-> 0, reported |-> 0, released |-> 0, events |-> <<>>]

RetAllow(key, nowMs, d) ==
    [RetNone EXCEPT !.op = "allow", !.key = key, !.nowMs = nowMs, !.allowed = d.allowed,
                    !.state = d.state, !.retryAfterMs = d.retryAfterMs]

RetChange(op, key, nowMs, c) ==
    [RetNone EXCEPT !.op = op, !.key = key, !.nowMs = nowMs, !.changed = c.changed,
                    !.from = c.from, !.to = c.to]

RetLim(op, w, result) == [RetNone EXCEPT !.op = op, !.id = w, !.result = result]

----------------------------------------------------------------------------
(* State shared by the specifications *)

NoRequest == [pc |-> "idle", key |-> "none", decision |-> "none"]

NoBuckets == [k \in {} |-> 0]

NoCalls == [k \in Keys |-> [CLOSED |-> 0, HALF_OPEN |-> 0]]

\* The window of SpecWin; the other specifications leave it alone
NoWin == [w |-> RollingWindow(1), pushed |-> <<>>]

InitCommon ==
    /\ promise = [w \in Ids |-> "none"]
    /\ timer = [w \in Ids |-> "none"]
    /\ now = 0
    /\ calls = NoCalls
    /\ arrival = <<>>
    /\ req = [r \in Requests |-> NoRequest]
    /\ ret = RetNone
    /\ win = NoWin

\* The clock advances by 1 ms, between two tasks of the event loop: not
\* while a continuation of a settled acquire() is waiting in the microtask
\* queue.  While no key is OPEN no timestamp is stored anywhere, so the time
\* that passes then only shifts the origin of the clock and is left out.
Tick ==
    /\ now < MaxTime
    /\ \E k \in DOMAIN breaker.buckets : breaker.buckets[k].state = "OPEN"
    /\ \A q \in Requests : req[q].pc = "acquire" => promise[q] = "pending"
    /\ now' = now + 1
    /\ ret' = [RetNone EXCEPT !.op = "tick"]
    /\ UNCHANGED <<win, breaker, limiter, promise, timer, calls, arrival, req>>

----------------------------------------------------------------------------
(* SpecWin: a RollingWindow of size 1..MaxWindowSize called directly: push  *)
(* of 0 or 1 and reset, in any order.  win.pushed is the history of the      *)
(* values pushed since the construction or the last reset.                  *)

InitWin ==
    /\ win \in {[w |-> RollingWindow(n), pushed |-> <<>>] : n \in 1..MaxWindowSize}
    /\ breaker \in [opts : {CHOOSE o \in BreakerOptsSet : TRUE}, buckets : {NoBuckets}]
    /\ limiter = ConcurrencyLimiter([maxInFlight |-> 1, maxQueue |-> 0])
    /\ promise = [w \in Ids |-> "none"]
    /\ timer = [w \in Ids |-> "none"]
    /\ now = 0
    /\ calls = NoCalls
    /\ arrival = <<>>
    /\ req = [r \in Requests |-> NoRequest]
    /\ ret = RetNone

WinPush(value) ==
    /\ Len(win.pushed) < MaxPushes
    /\ win' = [w |-> push(win.w, value), pushed |-> Append(win.pushed, value)]
    /\ ret' = [RetNone EXCEPT !.op = "push", !.id = value]
    /\ UNCHANGED <<breaker, limiter, promise, timer, now, calls, arrival, req>>

WinReset ==
    /\ win' = [w |-> reset(win.w), pushed |-> <<>>]
    /\ ret' = [RetNone EXCEPT !.op = "reset"]
    /\ UNCHANGED <<breaker, limiter, promise, timer, now, calls, arrival, req>>

NextWin ==
    \/ \E value \in {0, 1} : WinPush(value)
    \/ WinReset

SpecWin == InitWin /\ [][NextWin]_vars

----------------------------------------------------------------------------
(* SpecBr: the CircuitBreaker called directly.  Every allowed allow() is    *)
(* followed by exactly one onSuccess() or onFailure() for its key, at any   *)
(* later time; calls counts the allowed calls still to report.             *)

TotalCalls == calls["a"].CLOSED + calls["a"].HALF_OPEN + calls["b"].CLOSED + calls["b"].HALF_OPEN

InitBr ==
    /\ InitCommon
    /\ breaker \in [opts : BreakerOptsSet, buckets : {NoBuckets}]
    /\ limiter = ConcurrencyLimiter([maxInFlight |-> 1, maxQueue |-> 0])

BrAllow(k) ==
    LET r == allow(breaker, k, now)
    IN  /\ r.decision.allowed => TotalCalls < MaxCalls
        /\ breaker' = r.breaker
        /\ calls' = IF r.decision.allowed
                    THEN [calls EXCEPT ![k][r.decision.state] = @ + 1]
                    ELSE calls
        /\ ret' = RetAllow(k, now, r.decision)
        /\ UNCHANGED <<win, limiter, promise, timer, now, arrival, req>>

BrOnSuccess(k) ==
    \E s \in {"CLOSED", "HALF_OPEN"} :
        /\ calls[k][s] > 0
        /\ LET r == onSuccess(breaker, k)
           IN  /\ breaker' = r.breaker
               /\ ret' = RetChange("onSuccess", k, now, r.change)
        /\ calls' = [calls EXCEPT ![k][s] = @ - 1]
        /\ UNCHANGED <<win, limiter, promise, timer, now, arrival, req>>

BrOnFailure(k) ==
    \E s \in {"CLOSED", "HALF_OPEN"} :
        /\ calls[k][s] > 0
        /\ LET r == onFailure(breaker, k, now)
           IN  /\ breaker' = r.breaker
               /\ ret' = RetChange("onFailure", k, now, r.change)
        /\ calls' = [calls EXCEPT ![k][s] = @ - 1]
        /\ UNCHANGED <<win, limiter, promise, timer, now, arrival, req>>

NextBr ==
    \/ \E k \in Keys : BrAllow(k)
    \/ \E k \in Keys : BrOnSuccess(k)
    \/ \E k \in Keys : BrOnFailure(k)
    \/ Tick

SpecBr == InitBr /\ [][NextBr]_vars

----------------------------------------------------------------------------
(* SpecLim: the ConcurrencyLimiter called directly by NCallers callers.     *)
(* A caller calls acquire(); when its promise resolves it holds a permit    *)
(* until it calls release() once; when its promise rejects it holds none.   *)
(* A timer fires at any time while it is armed.                             *)

InitLim ==
    /\ InitCommon
    /\ breaker \in [opts : {CHOOSE o \in BreakerOptsSet : TRUE}, buckets : {NoBuckets}]
    /\ limiter \in {ConcurrencyLimiter(o) : o \in LimiterOptsSet}

SetLS(S) ==
    /\ limiter' = S.limiter
    /\ promise' = S.promise
    /\ timer' = S.timer
    /\ arrival' = Depart(arrival, S)

\* caller c calls acquire(); a settled promise of an earlier call is dropped
LimAcquire(c) ==
    /\ promise[c] \in {"none", "QueueFull", "QueueTimeout"}
    /\ LET S == acquire([LS EXCEPT !.timer[c] = "none"], c)
       IN  /\ limiter' = S.limiter
           /\ promise' = S.promise
           /\ timer' = S.timer
           /\ arrival' = Arrive(arrival, S, c)
           /\ ret' = RetLim("acquire", c, S.promise[c])
    /\ UNCHANGED <<win, breaker, now, calls, req>>

\* caller c, holding a permit, calls release() and is done
LimRelease(c) ==
    /\ promise[c] = "resolved"
    /\ LET r == release(LS)
           S == [r.state EXCEPT !.promise[c] = "none", !.timer[c] = "none"]
       IN  /\ SetLS(S)
           /\ ret' = RetLim("release", c, IF r.threw THEN "threw" ELSE "ok")
    /\ UNCHANGED <<win, breaker, now, calls, req>>

\* the enqueue timer of call c fires
LimTimeout(c) ==
    /\ timer[c] = "armed"
    /\ SetLS(onEnqueueTimeout(LS, c))
    /\ ret' = RetLim("timeout", c, "QueueTimeout")
    /\ UNCHANGED <<win, breaker, now, calls, req>>

NextLim ==
    \/ \E c \in Callers : LimAcquire(c)
    \/ \E c \in Callers : LimRelease(c)
    \/ \E c \in Callers : LimTimeout(c)

SpecLim == InitLim /\ [][NextLim]_vars

\* SpecLimMisuse: SpecLim with callers that break the contract of release():
\* release() is also called by code that holds no permit.
LimReleaseUnpaired ==
    /\ LET r == release(LS)
       IN  /\ SetLS(r.state)
           /\ ret' = RetLim("release", 0, IF r.threw THEN "threw" ELSE "ok")
    /\ UNCHANGED <<win, breaker, now, calls, req>>

NextLimMisuse ==
    \/ NextLim
    \/ LimReleaseUnpaired

SpecLimMisuse == InitLim /\ [][NextLimMisuse]_vars

----------------------------------------------------------------------------
(* Spec: ResilientHttpClient (src/src/events.ts holds src/client.ts).       *)
(* Up to NReq request() calls run concurrently on one event loop: a step is *)
(* the code a call runs between two awaits, or a timer callback.  When a    *)
(* call settles, ret holds its result and what the call did, and its slot   *)
(* is free for the next call.                                               *)

\* The limiter options the client is constructed with
ClientLimiterOptsSet ==
    { [maxInFlight |-> 1, maxQueue |-> 1],
      [maxInFlight |-> 1, maxQueue |-> 0] }

\* The breaker options the client is constructed with: a breaker that opens
\* on a failure, and one that never opens (minRequests > windowSize)
ClientBreakerOptsSet ==
    { [windowSize |-> 1, minRequests |-> 1, failureThreshold |-> [num |-> 1, den |-> 1],
       cooldownMs |-> 1, halfOpenProbeCount |-> 1],
      [windowSize |-> 1, minRequests |-> 2, failureThreshold |-> [num |-> 1, den |-> 1],
       cooldownMs |-> 1, halfOpenProbeCount |-> 1] }

\* What doHttpRequest does: a response with status < 500 or >= 500, or it
\* throws RequestTimeoutError or the transport's own error
Outcomes == {"status<500", "status>=500", "RequestTimeoutError", "TransportError"}

Init ==
    /\ InitCommon
    /\ breaker \in [opts : ClientBreakerOptsSet, buckets : {NoBuckets}]
    /\ limiter \in {ConcurrencyLimiter(o) : o \in ClientLimiterOptsSet}

Event(name, key, from, to) == [name |-> name, key |-> key, from |-> from, to |-> to]

\* breaker:state emitted only for a change that opens the key
StateEvents_opensOnly(key, c) ==
    IF c.changed /\ c.to = "OPEN" THEN <<Event("breaker:state", key, c.from, c.to)>> ELSE <<>>

\* if (change.changed) this.emit("breaker:state", {key, from, to})
StateEvents(key, c) ==
    IF c.changed THEN <<Event("breaker:state", key, c.from, c.to)>> ELSE <<>>

\* The slot the next request() call runs in: the lowest free one
FreeSlot(r) == req[r].pc = "idle" /\ \A q \in 1..(r - 1) : req[q].pc # "idle"

\* limiter.acquire() called whatever the breaker decided
acquireIfAllowed_always(S, w, d) == acquire(S, w)

\* `if (!decision.allowed) { ... return Promise.reject(err) }` before
\* `await this.limiter.acquire()`: acquire() is called for an allowed
\* request only
acquireIfAllowed(S, w, d) == IF d.allowed THEN acquire(S, w) ELSE S

\* new CircuitOpenError(key, decision.retryAfterMs ?? 0): its retryAfterMs
CircuitOpenError(d) == IF d.retryAfterMs = Undefined THEN 0 ELSE d.retryAfterMs

\* request(req) up to its first await: keyFn, breaker.allow, and when allowed
\* the synchronous part of limiter.acquire()
Request(r, k) ==
    /\ FreeSlot(r)
    /\ LET a == allow(breaker, k, now)
           d == a.decision
           S == acquireIfAllowed(LS, r, d)
       IN  /\ breaker' = a.breaker
           /\ limiter' = S.limiter
           /\ promise' = S.promise
           /\ timer' = S.timer
           /\ arrival' = Arrive(arrival, S, r)
           /\ IF ~d.allowed
              THEN /\ ret' = [RetAllow(k, now, d) EXCEPT
                                 !.op = "request", !.id = r, !.result = "CircuitOpenError",
                                 !.retryAfterMs = CircuitOpenError(d),
                                 !.events = <<Event("request:rejected", k, "none", "none")>>]
                   /\ UNCHANGED req
              ELSE /\ req' = [req EXCEPT ![r] = [pc |-> "acquire", key |-> k,
                                                 decision |-> d.state]]
                   /\ ret' = [RetAllow(k, now, d) EXCEPT
                                 !.op = "request", !.id = r, !.result = S.promise[r]]
    /\ UNCHANGED <<win, now, calls>>

\* request(req) resumes after `await this.limiter.acquire()` resolved: it
\* emits request:start and calls doHttpRequest
Start(r) ==
    /\ req[r].pc = "acquire"
    /\ promise[r] = "resolved"
    /\ req' = [req EXCEPT ![r].pc = "transport"]
    /\ ret' = [RetNone EXCEPT
                  !.op = "start", !.id = r, !.key = req[r].key, !.state = req[r].decision,
                  !.ioCalls = 1,
                  !.events = <<Event("request:start", req[r].key, "none", "none")>>]
    /\ UNCHANGED <<win, breaker, limiter, promise, timer, now, calls, arrival>>

\* the catch block of acquire() reporting the rejection as a failure
acquireCatch_onFailure(B, key, nowMs) == onFailure(B, key, nowMs).breaker

\* catch (err) { this.emit("request:rejected", ...); throw err }: the breaker
\* after the catch block of acquire(), which calls none of its methods
acquireCatch(B, key, nowMs) == B

\* request(req) resumes after `await this.limiter.acquire()` rejected: it
\* emits request:rejected and rethrows
Rejected(r) ==
    /\ req[r].pc = "acquire"
    /\ promise[r] \in {"QueueFull", "QueueTimeout"}
    /\ breaker' = acquireCatch(breaker, req[r].key, now)
    /\ req' = [req EXCEPT ![r] = NoRequest]
    /\ promise' = [promise EXCEPT ![r] = "none"]
    /\ timer' = [timer EXCEPT ![r] = "none"]
    /\ ret' = [RetNone EXCEPT
                  !.op = "rejected", !.id = r, !.key = req[r].key, !.state = req[r].decision,
                  !.result = promise[r],
                  !.events = <<Event("request:rejected", req[r].key, "none", "none")>>]
    /\ UNCHANGED <<win, limiter, now, calls, arrival>>

\* only a response with status >= 500 reported as a failure: an exception
\* of the transport call reported as a success
reportsFailure_statusOnly(out) == out = "status>=500"

\* What request() reports for the outcome out of doHttpRequest: onFailure
\* for res.status >= 500 and in the catch block, onSuccess otherwise
reportsFailure(out) == out \in {"status>=500", "RequestTimeoutError", "TransportError"}

\* limiter.release() inside the try block: skipped when doHttpRequest throws
finallyRelease_afterTry(S, out) ==
    IF out \in {"status<500", "status>=500"} THEN release(S)
    ELSE [state |-> S, threw |-> FALSE]

\* finally { this.limiter.release() }: runs whatever the outcome out
finallyRelease(S, out) == release(S)

\* request(req) resumes after `await doHttpRequest(...)` with outcome out:
\* it reports to the breaker, emits, and releases the permit in `finally`
Complete(r, out) ==
    /\ req[r].pc = "transport"
    /\ LET k   == req[r].key
           c   == IF reportsFailure(out) THEN onFailure(breaker, k, now)
                  ELSE onSuccess(breaker, k)
           rel == finallyRelease(LS, out)
           S   == [rel.state EXCEPT !.promise[r] = "none", !.timer[r] = "none"]
           res == IF out \in {"status<500", "status>=500"}
                  THEN "request:success" ELSE "request:failure"
       IN  /\ breaker' = c.breaker
           /\ SetLS(S)
           /\ req' = [req EXCEPT ![r] = NoRequest]
           /\ ret' = [RetChange("complete", k, now, c.change) EXCEPT
                         !.id = r, !.state = req[r].decision,
                         !.result = IF rel.threw THEN "ReleaseError" ELSE out,
                         !.ioCalls = 1, !.reported = 1, !.released = 1,
                         !.events = StateEvents(k, c.change)
                                    \o <<Event(res, k, "none", "none")>>]
    /\ UNCHANGED <<win, now, calls>>

\* the enqueue timer of request r's acquire() fires; a timer callback runs
\* only once the microtask queue is empty
EnqueueTimeout(r) ==
    /\ timer[r] = "armed"
    /\ \A q \in Requests : req[q].pc = "acquire" => promise[q] = "pending"
    /\ SetLS(onEnqueueTimeout(LS, r))
    /\ ret' = RetLim("timeout", r, "QueueTimeout")
    /\ UNCHANGED <<win, breaker, now, calls, req>>

Next ==
    \/ \E r \in Requests, k \in Keys : Request(r, k)
    \/ \E r \in Requests : Start(r)
    \/ \E r \in Requests : Rejected(r)
    \/ \E r \in Requests, out \in Outcomes : Complete(r, out)
    \/ \E r \in Requests : EnqueueTimeout(r)
    \/ Tick

Spec == Init /\ [][Next]_vars

\* The scheduling of the event loop, for SpecLive.  A continuation of
\* a settled acquire() runs (microtasks), the transport call settles (it
\* returns, throws, or is aborted by the requestTimeoutMs timer), and an
\* armed enqueue timer fires whenever the event loop gets to its timers.
Fairness ==
    /\ \A r \in Requests : WF_vars(Start(r))
    /\ \A r \in Requests : WF_vars(Rejected(r))
    /\ \A r \in Requests : WF_vars(\E out \in Outcomes : Complete(r, out))
    /\ \A r \in Requests : SF_vars(EnqueueTimeout(r))

\* SpecLive runs the client whose breaker opens on a failure and whose
\* limiter has 1 permit and a queue of 1.
InitLive ==
    /\ Init
    /\ breaker.opts.minRequests = 1
    /\ limiter.maxQueue = 1

SpecLive == InitLive /\ [][Next]_vars /\ Fairness

----------------------------------------------------------------------------
(* The limiter's claims, under SpecLim *)

\* acquire() calls whose promise is still pending
Pending == {w \in Ids : promise[w] = "pending"}

\* The waiters a step hands a permit to
Granted == {w \in Ids : promise[w] = "pending" /\ promise'[w] = "resolved"}

\* C1 (limiter capacity): in every reachable state of the limiter
\* 0 <= inFlight <= maxInFlight and the queue holds at most maxQueue waiters.
C1_LimiterCapacity ==
    /\ 0 <= limiter.inFlight
    /\ limiter.inFlight <= limiter.maxInFlight
    /\ Len(limiter.queue) <= limiter.maxQueue

\* C1's case: every permit is taken and the queue of 3 is full.
C1_Witness ==
    /\ limiter.maxQueue = 3
    /\ limiter.inFlight = limiter.maxInFlight
    /\ Len(limiter.queue) = limiter.maxQueue

\* C2 (FIFO hand-off): a step grants a permit to a waiter only if that
\* waiter was enqueued before every other waiter still waiting, and a
\* release() that finds waiters grants the permit to exactly that waiter.
C2_FifoHandoff ==
    [][ /\ \A w \in Granted : arrival # <<>> /\ w = Head(arrival)
        /\ (ret'.op = "release" /\ limiter.queue # <<>>) => Granted = {Head(arrival)}
      ]_vars

\* C2's case: a release() has just handed the permit to a waiter while
\* another one enqueued after it still waits and a third has timed out.
C2_Witness ==
    /\ ret.op = "release"
    /\ \E w \in Ids : promise[w] = "resolved" /\ timer[w] = "cleared"
    /\ Pending # {}
    /\ \E w \in Ids : promise[w] = "QueueTimeout"

\* C10 (release hand-off): release() with a non-empty queue removes exactly
\* the head waiter, resolves its promise, clears its timer and leaves
\* inFlight unchanged; release() with an empty queue and inFlight > 0
\* reduces inFlight by 1 and changes nothing else.  (The caller that
\* releases is ret'.id; its own finished call is dropped.)
C10_ReleaseHandoff ==
    [][ ret'.op = "release" =>
         /\ limiter.queue # <<>> =>
              LET h == Head(limiter.queue)
              IN  /\ limiter' = [limiter EXCEPT !.queue = Tail(@)]
                  /\ promise[h] = "pending" /\ promise'[h] = "resolved"
                  /\ timer'[h] = "cleared"
                  /\ ret'.result = "ok"
                  /\ \A w \in Ids \ {h, ret'.id} :
                         promise'[w] = promise[w] /\ timer'[w] = timer[w]
         /\ (limiter.queue = <<>> /\ limiter.inFlight > 0) =>
                  /\ limiter' = [limiter EXCEPT !.inFlight = @ - 1]
                  /\ ret'.result = "ok"
                  /\ \A w \in Ids \ {ret'.id} :
                         promise'[w] = promise[w] /\ timer'[w] = timer[w]
      ]_vars

\* C10's case: a release() has just handed its permit to the head waiter
\* and another waiter stays queued.
C10_Witness ==
    /\ ret.op = "release"
    /\ \E w \in Ids : promise[w] = "resolved" /\ timer[w] = "cleared"
    /\ limiter.queue # <<>>
    /\ limiter.inFlight = limiter.maxInFlight

----------------------------------------------------------------------------
(* The pipeline's claims, under Spec *)

\* The requests that hold a permit: their acquire() resolved and they have
\* not yet released
Holders ==
    {r \in Requests : \/ req[r].pc = "transport"
                      \/ req[r].pc = "acquire" /\ promise[r] = "resolved"}

\* C3 (permit pairing): inFlight is the number of requests that hold a
\* permit, so with no request outstanding inFlight = 0 and the queue is
\* empty; a request that settles has called release() once if its acquire
\* resolved and never if it was rejected, and release() never throws.
C3_PermitPairing ==
    /\ limiter.inFlight = Cardinality(Holders)
    /\ (\A r \in Requests : req[r].pc = "idle") =>
           limiter.inFlight = 0 /\ limiter.queue = <<>>
    /\ ret.op = "complete" => ret.released = 1 /\ ret.result \in Outcomes
    /\ ret.op = "rejected" => ret.released = 0
    /\ (ret.op = "request" /\ ~ret.allowed) => ret.released = 0

\* C3's case: a request whose transport call threw has just settled, its
\* permit went to a queued request, and that one holds it now.
C3_Witness ==
    /\ ret.op = "complete"
    /\ ret.result \in {"RequestTimeoutError", "TransportError"}
    /\ \E r \in Requests :
          req[r].pc = "acquire" /\ promise[r] = "resolved" /\ timer[r] = "cleared"
    /\ limiter.inFlight = 1

----------------------------------------------------------------------------
(* The breaker's claims, under SpecBr.  A step that calls allow, onSuccess  *)
(* or onFailure for key k at the time `now` leaves ret'.op and ret'.key = k. *)

\* a step calls op for key k
Calls(op, k) == ret'.op = op /\ ret'.key = k

\* C4 (OPEN denies during cooldown): for a key OPEN since t, allow(key, now)
\* with now - t < cooldownMs returns allowed = false, state OPEN and
\* retryAfterMs = cooldownMs - (now - t) and leaves the bucket unchanged;
\* onSuccess and onFailure leave an OPEN key OPEN with the same openedAtMs.
C4_OpenDeniesDuringCooldown ==
    [][ \A k \in DOMAIN breaker.buckets :
          LET b  == breaker.buckets[k]
              b1 == breaker'.buckets[k]
              cooldownMs == breaker.opts.cooldownMs
          IN  b.state = "OPEN" =>
                /\ (Calls("allow", k) /\ now - b.openedAtMs < cooldownMs) =>
                       /\ ret'.allowed = FALSE
                       /\ ret'.state = "OPEN"
                       /\ ret'.retryAfterMs = cooldownMs - (now - b.openedAtMs)
                       /\ b1 = b
                /\ (Calls("onSuccess", k) \/ Calls("onFailure", k)) =>
                       /\ b1.state = "OPEN"
                       /\ b1.openedAtMs = b.openedAtMs
      ]_vars

\* C4's case: an allow() 1 ms into a cooldown of 2 ms has just been denied.
C4_Witness ==
    /\ ret.op = "allow"
    /\ ret.allowed = FALSE
    /\ ret.state = "OPEN"
    /\ breaker.opts.cooldownMs = 2
    /\ ret.retryAfterMs = 1
    /\ now - breaker.buckets[ret.key].openedAtMs = 1

\* C5 (half-open bound on real probes): for every key, the calls admitted by
\* allow in state HALF_OPEN that have not reported their result are at most
\* halfOpenProbeCount.
C5_HalfOpenBound ==
    \A k \in Keys : calls[k].HALF_OPEN <= breaker.opts.halfOpenProbeCount

\* C6 (opening rule): onFailure(key, now) on a CLOSED key pushes a failure
\* into the window and then opens the key, with openedAtMs = now, if and only
\* if the window's count >= minRequests and failures / count >=
\* failureThreshold; onSuccess on a CLOSED key leaves it CLOSED.
C6_OpeningRule ==
    [][ \A k \in DOMAIN breaker.buckets :
          LET b  == breaker.buckets[k]
              b1 == breaker'.buckets[k]
              w1 == push(b.window, 1)
              o  == breaker.opts
          IN  b.state = "CLOSED" =>
                /\ Calls("onFailure", k) =>
                       /\ b1.window = w1
                       /\ b1.state = "OPEN" <=>
                              /\ count(w1) >= o.minRequests
                              /\ failures(w1) * o.failureThreshold.den
                                     >= o.failureThreshold.num * count(w1)
                       /\ b1.state = "OPEN" =>
                              /\ b1.openedAtMs = now
                              /\ ret'.changed /\ ret'.from = "CLOSED" /\ ret'.to = "OPEN"
                       /\ b1.state # "OPEN" => b1.state = "CLOSED" /\ ~ret'.changed
                /\ Calls("onSuccess", k) => b1.state = "CLOSED" /\ ~ret'.changed
      ]_vars

\* C6's case: a failure has just opened a key whose window holds 2 results,
\* 1 of them a failure, with minRequests = 2 and failureThreshold = 1/2.
C6_Witness ==
    /\ ret.op = "onFailure"
    /\ ret.changed /\ ret.from = "CLOSED" /\ ret.to = "OPEN"
    /\ breaker.opts.minRequests = 2
    /\ breaker.buckets[ret.key].state = "OPEN"
    /\ count(breaker.buckets[ret.key].window) = 2
    /\ failures(breaker.buckets[ret.key].window) = 1

\* C7 (closing rule): onSuccess on a HALF_OPEN key leaves it HALF_OPEN while
\* halfOpenSuccesses stays below halfOpenProbeCount; the success that makes
\* it reach halfOpenProbeCount closes the key, reports changed = true
\* (HALF_OPEN -> CLOSED), and leaves the window empty and the half-open
\* counters 0.
C7_ClosingRule ==
    [][ \A k \in DOMAIN breaker.buckets :
          LET b  == breaker.buckets[k]
              b1 == breaker'.buckets[k]
          IN  (b.state = "HALF_OPEN" /\ Calls("onSuccess", k)) =>
                IF b.halfOpenSuccesses + 1 < breaker.opts.halfOpenProbeCount
                THEN /\ b1.state = "HALF_OPEN"
                     /\ b1.halfOpenSuccesses = b.halfOpenSuccesses + 1
                     /\ ~ret'.changed
                ELSE /\ b1.state = "CLOSED"
                     /\ ret'.changed /\ ret'.from = "HALF_OPEN" /\ ret'.to = "CLOSED"
                     /\ count(b1.window) = 0 /\ failures(b1.window) = 0
                     /\ b1.halfOpenInFlight = 0
                     /\ b1.halfOpenSuccesses = 0
                     /\ b1.halfOpenFailures = 0
      ]_vars

\* C7's case: the second of 2 probe successes has just closed the key.
C7_Witness ==
    /\ ret.op = "onSuccess"
    /\ ret.changed /\ ret.from = "HALF_OPEN" /\ ret.to = "CLOSED"
    /\ breaker.opts.halfOpenProbeCount = 2
    /\ breaker.buckets[ret.key].state = "CLOSED"

\* C8 (re-open rule): onFailure(key, now) on a HALF_OPEN key opens it at once
\* with openedAtMs = now and the half-open counters 0, whatever successes
\* were counted, and leaves the rolling window as it was.
C8_ReopenRule ==
    [][ \A k \in DOMAIN breaker.buckets :
          LET b  == breaker.buckets[k]
              b1 == breaker'.buckets[k]
          IN  (b.state = "HALF_OPEN" /\ Calls("onFailure", k)) =>
                /\ b1.state = "OPEN"
                /\ b1.openedAtMs = now
                /\ b1.halfOpenInFlight = 0
                /\ b1.halfOpenSuccesses = 0
                /\ b1.halfOpenFailures = 0
                /\ b1.window = b.window
                /\ ret'.changed /\ ret'.from = "HALF_OPEN" /\ ret'.to = "OPEN"
      ]_vars

\* C8's case: a failure has just re-opened a HALF_OPEN key, at a time
\* later than its first opening, and the window still holds its failures.
C8_Witness ==
    /\ ret.op = "onFailure"
    /\ ret.changed /\ ret.from = "HALF_OPEN" /\ ret.to = "OPEN"
    /\ breaker.buckets[ret.key].state = "OPEN"
    /\ breaker.buckets[ret.key].openedAtMs = now
    /\ now > 0
    /\ failures(breaker.buckets[ret.key].window) > 0

\* C9 (lazy half-open): for a key OPEN since t, allow(key, now) with
\* now - t >= cooldownMs makes the key HALF_OPEN with openedAtMs cleared and
\* the success and failure counters 0, and admits the call as the first
\* probe: allowed = true, state HALF_OPEN, halfOpenInFlight = 1.
C9_LazyHalfOpen ==
    [][ \A k \in DOMAIN breaker.buckets :
          LET b  == breaker.buckets[k]
              b1 == breaker'.buckets[k]
          IN  ( /\ b.state = "OPEN"
                /\ Calls("allow", k)
                /\ now - b.openedAtMs >= breaker.opts.cooldownMs ) =>
                /\ b1.state = "HALF_OPEN"
                /\ b1.openedAtMs = Undefined
                /\ b1.halfOpenSuccesses = 0
                /\ b1.halfOpenFailures = 0
                /\ b1.halfOpenInFlight = 1
                /\ b1.window = b.window
                /\ ret'.allowed = TRUE
                /\ ret'.state = "HALF_OPEN"
      ]_vars

\* C9's case: the allow() that found the cooldown over has just been
\* admitted as the first probe.
C9_Witness ==
    /\ ret.op = "allow"
    /\ ret.allowed = TRUE
    /\ ret.state = "HALF_OPEN"
    /\ breaker.buckets[ret.key].state = "HALF_OPEN"
    /\ breaker.buckets[ret.key].halfOpenInFlight = 1
    /\ breaker.buckets[ret.key].halfOpenSuccesses = 0

----------------------------------------------------------------------------
(* The limiter's error paths, under SpecLim and SpecLimMisuse *)

\* C11 (QueueFull rejection): acquire() called with every permit taken and
\* the queue disabled or full rejects with QueueFull at once, arms no timer
\* and leaves inFlight, the queue and every other call unchanged; acquire()
\* called with every permit taken and room in the queue does not reject: it
\* appends one waiter, pending, with its timer armed.
C11_QueueFullRejection ==
    [][ (ret'.op = "acquire" /\ limiter.inFlight = limiter.maxInFlight) =>
          LET w == ret'.id
          IN  /\ \A v \in Ids \ {w} : promise'[v] = promise[v] /\ timer'[v] = timer[v]
              /\ IF limiter.maxQueue = 0 \/ Len(limiter.queue) >= limiter.maxQueue
                 THEN /\ ret'.result = "QueueFull"
                      /\ promise'[w] = "QueueFull"
                      /\ timer'[w] = "none"
                      /\ limiter' = limiter
                 ELSE /\ ret'.result = "pending"
                      /\ promise'[w] = "pending"
                      /\ timer'[w] = "armed"
                      /\ limiter' = [limiter EXCEPT !.queue = Append(@, w)]
      ]_vars

\* C11's case: an acquire() has just been rejected with QueueFull by a
\* limiter whose 2 permits are taken and whose queue of 1 holds 1 waiter.
C11_Witness ==
    /\ ret.op = "acquire"
    /\ ret.result = "QueueFull"
    /\ promise[ret.id] = "QueueFull"
    /\ limiter.maxQueue = 1
    /\ Len(limiter.queue) = 1
    /\ limiter.inFlight = 2

\* the sequence q without its element w
Without(q, w) == SelectSeq(q, LAMBDA v : v # w)

\* C12 (QueueTimeout rejection): when the enqueue timer of a queued waiter
\* fires, that waiter alone leaves the queue and its promise rejects with
\* QueueTimeout; the other waiters keep their order, their promises and
\* their timers, and inFlight is unchanged.
C12_QueueTimeoutRejection ==
    [][ (ret'.op = "timeout" /\ \E i \in 1..Len(limiter.queue) : limiter.queue[i] = ret'.id) =>
          LET w == ret'.id
          IN  /\ limiter' = [limiter EXCEPT !.queue = Without(@, w)]
              /\ Len(limiter'.queue) = Len(limiter.queue) - 1
              /\ promise[w] = "pending" /\ promise'[w] = "QueueTimeout"
              /\ timer'[w] # "armed"
              /\ \A v \in Ids \ {w} : promise'[v] = promise[v] /\ timer'[v] = timer[v]
      ]_vars

\* C12's case: a waiter has just timed out of a queue in which 2 others
\* still wait, the permits all taken.
C12_Witness ==
    /\ ret.op = "timeout"
    /\ promise[ret.id] = "QueueTimeout"
    /\ Len(limiter.queue) = 2
    /\ \A i \in 1..Len(limiter.queue) : promise[limiter.queue[i]] = "pending"
    /\ limiter.inFlight = limiter.maxInFlight

\* C13 (release on empty): release() called with inFlight = 0 throws and
\* leaves inFlight at 0 and the queue, the promises and the timers unchanged
\* (but for the finished call of the caller that releases); inFlight is
\* never negative.
C13_ReleaseOnEmpty ==
    [][ /\ limiter'.inFlight >= 0
        /\ (ret'.op = "release" /\ limiter.inFlight = 0) =>
              /\ ret'.result = "threw"
              /\ limiter' = limiter
              /\ \A w \in Ids \ {ret'.id} : promise'[w] = promise[w] /\ timer'[w] = timer[w]
      ]_vars

\* C13's case: a release() has just thrown, a caller still believing it
\* holds a permit.
C13_Witness ==
    /\ ret.op = "release"
    /\ ret.result = "threw"
    /\ limiter.inFlight = 0
    /\ \E w \in Ids : promise[w] = "resolved"

\* C18 (waiter conservation): a timer fires only for a waiter still waiting
\* and rejects it with QueueTimeout; release() hands its permit only to a
\* waiter still waiting and resolves it; a call that resolved never rejects
\* with QueueTimeout, and a call that timed out never resolves (its caller
\* may call acquire() again).
C18_WaiterConservation ==
    [][ \A w \in Ids :
          /\ (ret'.op = "timeout" /\ ret'.id = w) =>
                 promise[w] = "pending" /\ promise'[w] = "QueueTimeout"
          /\ (ret'.op = "release" /\ limiter.queue # <<>> /\ Head(limiter.queue) = w) =>
                 promise[w] = "pending" /\ promise'[w] = "resolved"
          /\ promise[w] = "resolved" => promise'[w] \in {"resolved", "none"}
          /\ promise[w] = "QueueTimeout" =>
                 promise'[w] = "QueueTimeout" \/ (ret'.op = "acquire" /\ ret'.id = w)
          /\ (promise[w] = "pending" /\ promise'[w] # "pending") =>
                 \/ ret'.op = "timeout" /\ ret'.id = w /\ promise'[w] = "QueueTimeout"
                 \/ ret'.op = "release" /\ promise'[w] = "resolved"
      ]_vars

\* C18's case: a timer has just fired and rejected its waiter, after
\* another waiter left the queue by hand-off and holds its permit.
C18_Witness ==
    /\ ret.op = "timeout"
    /\ promise[ret.id] = "QueueTimeout"
    /\ timer[ret.id] # "armed"
    /\ \E w \in Ids \ {ret.id} : promise[w] = "resolved" /\ timer[w] = "cleared"

\* C20 (no permit stealing): in every state, a non-empty queue means every
\* permit is taken; so an acquire() called while a waiter is queued never
\* resolves at once.
C20_NoPermitStealing ==
    /\ [](limiter.queue # <<>> => limiter.inFlight = limiter.maxInFlight)
    /\ [][ (ret'.op = "acquire" /\ limiter.queue # <<>>) =>
               /\ ret'.result \in {"pending", "QueueFull"}
               /\ limiter'.inFlight = limiter.inFlight
         ]_vars

\* C20's case: an acquire() has just queued behind another waiter, with
\* every permit taken.
C20_Witness ==
    /\ ret.op = "acquire"
    /\ ret.result = "pending"
    /\ Len(limiter.queue) >= 2
    /\ limiter.inFlight = limiter.maxInFlight

----------------------------------------------------------------------------
(* The pipeline's rejections and outcomes, under Spec and SpecLive.  A step *)
(* of request r on key k leaves ret'.id = r and ret'.key = k; ret'.op is    *)
(* "request" (allow and the call of acquire), "start", "rejected" (the      *)
(* catch block of acquire), "complete", or "timeout" (an enqueue timer).    *)

\* the state of key k in breaker B: a key without a bucket is CLOSED
StateOf(B, k) == IF k \in DOMAIN B.buckets THEN B.buckets[k].state ELSE "CLOSED"

\* the rolling window of key k in breaker B: empty for a key without a bucket
WindowOf(B, k) ==
    IF k \in DOMAIN B.buckets THEN B.buckets[k].window ELSE RollingWindow(B.opts.windowSize)

\* C14 (circuit-open rejection is isolated): request() on a key that is OPEN
\* within its cooldown, or HALF_OPEN with every probe slot taken, is denied;
\* a denied request() fails with CircuitOpenError carrying retryAfterMs =
\* cooldownMs - (now - openedAtMs) for an OPEN key and 0 for a HALF_OPEN one,
\* starts no acquire() and no transport call, and leaves the limiter, the
\* promises, the timers, the requests in progress and the breaker unchanged.
C14_CircuitOpenIsolated ==
    [][ \A k \in Keys :
          (ret'.op = "request" /\ ret'.key = k) =>
            LET s == StateOf(breaker, k)
                b == breaker.buckets[k]
                o == breaker.opts
                denied == \/ s = "OPEN" /\ now - b.openedAtMs < o.cooldownMs
                          \/ s = "HALF_OPEN" /\ b.halfOpenInFlight >= o.halfOpenProbeCount
            IN  /\ denied <=> ~ret'.allowed
                /\ ~ret'.allowed =>
                     /\ ret'.result = "CircuitOpenError"
                     /\ ret'.retryAfterMs = IF s = "OPEN"
                                            THEN o.cooldownMs - (now - b.openedAtMs)
                                            ELSE 0
                     /\ ret'.ioCalls = 0 /\ ret'.reported = 0 /\ ret'.released = 0
                     /\ limiter' = limiter
                     /\ promise' = promise
                     /\ timer' = timer
                     /\ req' = req
                     /\ breaker' = breaker
      ]_vars

\* C14's case: a request() has just been denied on a HALF_OPEN key whose
\* probe is in its transport call, holding the permit.
C14_Witness ==
    /\ ret.op = "request"
    /\ ~ret.allowed
    /\ ret.state = "HALF_OPEN"
    /\ ret.result = "CircuitOpenError"
    /\ limiter.inFlight = 1
    /\ \E r \in Requests : req[r].pc = "transport" /\ req[r].key = ret.key
                           /\ req[r].decision = "HALF_OPEN"

\* C15 as claimed (queue rejections leave the breaker state unchanged): a
\* request() that fails with QueueFull leaves the state and the window of
\* its key as they were before it was called, and the catch block of
\* acquire() leaves the breaker unchanged.
C15_QueueRejectionKeepsState ==
    [][ \A k \in Keys :
          /\ (ret'.op = "request" /\ ret'.key = k /\ ret'.result = "QueueFull") =>
                 /\ StateOf(breaker', k) = StateOf(breaker, k)
                 /\ WindowOf(breaker', k) = WindowOf(breaker, k)
          /\ (ret'.op = "rejected" /\ ret'.key = k) => breaker' = breaker
      ]_vars

\* C15 amended (queue rejections do not feed the breaker): the steps of a
\* request() that fails with QueueFull or QueueTimeout -- its call of allow
\* and acquire, the firing of its enqueue timer, the catch block of acquire
\* -- make no transport call and report nothing to the breaker; they leave
\* the rolling window of every key unchanged, and the state of every key
\* unchanged but for the OPEN -> HALF_OPEN move its own allow makes when the
\* cooldown of its key has elapsed.
C15_QueueRejectionNotReported ==
    [][ \A k \in Keys :
          /\ (ret'.op = "request" /\ ret'.key = k /\ ret'.result \in {"QueueFull", "pending"}) =>
                 /\ ret'.ioCalls = 0 /\ ret'.reported = 0
                 /\ WindowOf(breaker', k) = WindowOf(breaker, k)
                 /\ IF StateOf(breaker, k) = "OPEN"
                    THEN /\ now - breaker.buckets[k].openedAtMs >= breaker.opts.cooldownMs
                         /\ StateOf(breaker', k) = "HALF_OPEN"
                    ELSE StateOf(breaker', k) = StateOf(breaker, k)
                 /\ \A j \in Keys \ {k} :
                        j \in DOMAIN breaker'.buckets =>
                            j \in DOMAIN breaker.buckets
                            /\ breaker'.buckets[j] = breaker.buckets[j]
          /\ (ret'.op = "timeout" /\ ret'.id \in Requests /\ req[ret'.id].key = k) =>
                 breaker' = breaker /\ req' = req
          /\ (ret'.op = "rejected" /\ ret'.key = k) =>
                 /\ ret'.result \in {"QueueFull", "QueueTimeout"}
                 /\ req[ret'.id].pc = "acquire"
                 /\ ret'.ioCalls = 0 /\ ret'.reported = 0
                 /\ breaker' = breaker
      ]_vars

\* C15's case: a request() admitted by the allow that moved its key from
\* OPEN to HALF_OPEN has just failed with QueueFull, the permit held by a
\* request on the other key; the key is HALF_OPEN.
C15_Witness ==
    /\ ret.op = "rejected"
    /\ ret.result = "QueueFull"
    /\ ret.state = "HALF_OPEN"
    /\ StateOf(breaker, ret.key) = "HALF_OPEN"
    /\ \E r \in Requests : req[r].pc = "transport" /\ req[r].key # ret.key

\* C16 (probe reservation released on queue rejection): when a request()
\* admitted by allow as a HALF_OPEN probe fails with QueueFull or
\* QueueTimeout, its rejection gives the probe slot back: on a key still
\* HALF_OPEN, halfOpenInFlight goes down by 1.
C16_ProbeReservationReleased ==
    [][ \A k \in Keys :
          ( /\ ret'.op = "rejected" /\ ret'.key = k /\ ret'.state = "HALF_OPEN"
            /\ StateOf(breaker, k) = "HALF_OPEN"
            /\ breaker.buckets[k].halfOpenInFlight > 0 ) =>
              breaker'.buckets[k].halfOpenInFlight = breaker.buckets[k].halfOpenInFlight - 1
      ]_vars

\* the effect of one onSuccess() on bucket b, giving b1
SuccessEffect(b, b1, o) ==
    /\ b.state = "CLOSED" => b1 = [b EXCEPT !.window = push(@, 0)]
    /\ b.state = "OPEN" => b1 = b
    /\ b.state = "HALF_OPEN" =>
          IF b.halfOpenSuccesses + 1 >= o.halfOpenProbeCount
          THEN b1.state = "CLOSED"
          ELSE b1.state = "HALF_OPEN" /\ b1.halfOpenSuccesses = b.halfOpenSuccesses + 1

\* the effect of one onFailure() at the time t on bucket b, giving b1
FailureEffect(b, b1, t) ==
    /\ b.state = "CLOSED" =>
          /\ b1.window = push(b.window, 1)
          /\ b1.state \in {"CLOSED", "OPEN"}
          /\ b1.state = "OPEN" => b1.openedAtMs = t
    /\ b.state = "OPEN" => b1 = b
    /\ b.state = "HALF_OPEN" => b1.state = "OPEN" /\ b1.openedAtMs = t

\* C17 (outcome classification): the step in which a request() that holds a
\* permit settles reports one result for its key and then releases the
\* permit: one onFailure when the transport call returned status >= 500 or
\* threw, one onSuccess when it returned status < 500; the request settles
\* with that outcome, a status >= 500 as a response (request:success is
\* emitted), a thrown error as that error (request:failure is emitted).  No
\* other step of a request that got its permit touches the breaker.
C17_OutcomeClassification ==
    [][ /\ ret'.op = "complete" =>
            LET k  == ret'.key
                b  == breaker.buckets[k]
                b1 == breaker'.buckets[k]
                last == ret'.events[Len(ret'.events)]
            IN  /\ req[ret'.id].pc = "transport" /\ req[ret'.id].key = k
                /\ ret'.result \in Outcomes
                /\ ret'.result = "status<500" => SuccessEffect(b, b1, breaker.opts)
                /\ ret'.result # "status<500" => FailureEffect(b, b1, now)
                /\ \A j \in DOMAIN breaker'.buckets \ {k} :
                       breaker'.buckets[j] = breaker.buckets[j]
                /\ last.name = IF ret'.result \in {"status<500", "status>=500"}
                               THEN "request:success" ELSE "request:failure"
                /\ ret'.changed <=> b1.state # b.state
                /\ \/ limiter' = [limiter EXCEPT !.inFlight = @ - 1]
                   \/ limiter.queue # <<>> /\ limiter' = [limiter EXCEPT !.queue = Tail(@)]
                /\ req'[ret'.id].pc = "idle"
        /\ ret'.op = "start" => breaker' = breaker /\ req[ret'.id].pc = "acquire"
      ]_vars

\* C17's case: a request() whose transport call returned status >= 500 has
\* just settled with that response, and its report opened the key.
C17_Witness ==
    /\ ret.op = "complete"
    /\ ret.result = "status>=500"
    /\ ret.changed /\ ret.from = "CLOSED" /\ ret.to = "OPEN"
    /\ StateOf(breaker, ret.key) = "OPEN"
    /\ breaker.buckets[ret.key].openedAtMs = now

\* C19 (every request terminates): under SpecLive no request() stays in
\* progress for ever: at every time each of the NReq calls settles later (or
\* has settled), with a response, CircuitOpenError, QueueFull, QueueTimeout,
\* RequestTimeoutError or the transport's error.  In particular a waiter in
\* the queue belongs to a request in progress, so it leaves the queue, and
\* it leaves resolved (hand-off) or rejected with QueueTimeout.
C19_RequestsTerminate ==
    /\ \A r \in Requests : []<>(req[r].pc = "idle")
    /\ [](\A r \in Requests : promise[r] = "pending" =>
              /\ req[r].pc = "acquire"
              /\ \E i \in 1..Len(limiter.queue) : limiter.queue[i] = r)
    /\ [][\A r \in Requests : (promise[r] = "pending" /\ promise'[r] # "pending") =>
              /\ promise'[r] \in {"resolved", "QueueTimeout"}
              /\ \A i \in 1..Len(limiter'.queue) : limiter'.queue[i] # r]_vars
    /\ [](ret.op \in {"complete", "rejected"} \/ (ret.op = "request" /\ ~ret.allowed)
            => ret.result \in Outcomes \cup {"CircuitOpenError", "QueueFull", "QueueTimeout"})

\* C19's case: a request() that waited in the queue has just settled with
\* QueueTimeout while another request still holds the permit.
C19_Witness ==
    /\ ret.op = "rejected"
    /\ ret.result = "QueueTimeout"
    /\ req[ret.id].pc = "idle"
    /\ \E r \in Requests : req[r].pc = "transport"

----------------------------------------------------------------------------
(* The rolling window's claim, under SpecWin *)

Min(a, b) == IF a < b THEN a ELSE b

\* the sum of the last n values of the sequence s
RECURSIVE SumLast(_, _)
SumLast(s, n) == IF n = 0 THEN 0 ELSE s[Len(s)] + SumLast(SubSeq(s, 1, Len(s) - 1), n - 1)

\* C24 (window arithmetic): after any pushes and resets of a RollingWindow
\* of size N, with len values pushed since the last reset, count() =
\* min(N, len), failures() = the sum of the last min(N, len) values pushed,
\* 0 <= failures() <= count(), and failureRate() is failures() / count(),
\* within [0, 1], and 0 when count() = 0.
C24_WindowArithmetic ==
    LET w   == win.w
        len == Len(win.pushed)
        n   == Min(w.size, len)
        fr  == failureRate(w)
    IN  /\ count(w) = n
        /\ failures(w) = SumLast(win.pushed, n)
        /\ 0 <= failures(w) /\ failures(w) <= count(w)
        /\ fr.den > 0 /\ 0 <= fr.num /\ fr.num <= fr.den
        /\ count(w) = 0 => fr.num = 0
        /\ count(w) > 0 => fr.num * count(w) = failures(w) * fr.den

\* C24's case: a window of size 2 pushed 1, 1, 0 has wrapped: 2 results
\* count, 1 of them a failure.
C24_Witness ==
    /\ ret.op = "push"
    /\ win.w.size = 2
    /\ win.pushed = <<1, 1, 0>>
    /\ count(win.w) = 2
    /\ failures(win.w) = 1

----------------------------------------------------------------------------
(* The breaker's state machine, under SpecBr *)

\* C22 (probe counter invariant): in every bucket 0 <= halfOpenInFlight <=
\* halfOpenProbeCount; an allow() on a HALF_OPEN key whose halfOpenInFlight
\* is halfOpenProbeCount is denied with state HALF_OPEN and retryAfterMs = 0
\* and leaves the bucket unchanged.
C22_ProbeCounter ==
    /\ [](\A k \in DOMAIN breaker.buckets :
             /\ 0 <= breaker.buckets[k].halfOpenInFlight
             /\ breaker.buckets[k].halfOpenInFlight <= breaker.opts.halfOpenProbeCount)
    /\ [][ \A k \in DOMAIN breaker.buckets :
             LET b == breaker.buckets[k]
             IN  ( /\ Calls("allow", k)
                   /\ b.state = "HALF_OPEN"
                   /\ b.halfOpenInFlight = breaker.opts.halfOpenProbeCount ) =>
                     /\ ret'.allowed = FALSE
                     /\ ret'.state = "HALF_OPEN"
                     /\ ret'.retryAfterMs = 0
                     /\ breaker'.buckets[k] = b
         ]_vars

\* C22's case: an allow() has just been denied on a HALF_OPEN key whose 2
\* probe slots are taken.
C22_Witness ==
    /\ ret.op = "allow"
    /\ ret.allowed = FALSE
    /\ ret.state = "HALF_OPEN"
    /\ ret.retryAfterMs = 0
    /\ breaker.opts.halfOpenProbeCount = 2
    /\ breaker.buckets[ret.key].halfOpenInFlight = 2

\* C23 (results are ignored while OPEN): onSuccess and onFailure on an OPEN
\* key return changed = false and leave the bucket -- state, openedAtMs,
\* window, half-open counters -- unchanged.
C23_IgnoredWhileOpen ==
    [][ \A k \in DOMAIN breaker.buckets :
          LET b == breaker.buckets[k]
          IN  (b.state = "OPEN" /\ (Calls("onSuccess", k) \/ Calls("onFailure", k))) =>
                /\ ~ret'.changed
                /\ ret'.from = "none" /\ ret'.to = "none"
                /\ breaker'.buckets[k] = b
      ]_vars

\* C23's case: the success of a call admitted before the key opened has just
\* been reported, 1 ms after the opening; the key is OPEN since then.
C23_Witness ==
    /\ ret.op = "onSuccess"
    /\ ~ret.changed
    /\ breaker.buckets[ret.key].state = "OPEN"
    /\ breaker.buckets[ret.key].openedAtMs = now - 1

\* C25 (allowed transitions only): a bucket is created CLOSED; the state of
\* a key changes only CLOSED -> OPEN in onFailure, OPEN -> HALF_OPEN in
\* allow with now - openedAtMs >= cooldownMs, HALF_OPEN -> CLOSED in
\* onSuccess, and HALF_OPEN -> OPEN in onFailure.
C25_AllowedTransitions ==
    [][ \A k \in DOMAIN breaker'.buckets :
          LET s1 == breaker'.buckets[k].state
          IN  IF k \notin DOMAIN breaker.buckets
              THEN s1 = "CLOSED"
              ELSE LET b == breaker.buckets[k]
                       s == b.state
                   IN  s1 # s =>
                         \/ s = "CLOSED" /\ s1 = "OPEN" /\ Calls("onFailure", k)
                         \/ /\ s = "OPEN" /\ s1 = "HALF_OPEN" /\ Calls("allow", k)
                            /\ now - b.openedAtMs >= breaker.opts.cooldownMs
                         \/ s = "HALF_OPEN" /\ s1 = "CLOSED" /\ Calls("onSuccess", k)
                         \/ s = "HALF_OPEN" /\ s1 = "OPEN" /\ Calls("onFailure", k)
      ]_vars

\* C25's case: a failure has just moved a key from CLOSED to OPEN, 2 ms or
\* more after the first opening of a key, while a key is CLOSED.
C25_Witness ==
    /\ ret.op = "onFailure"
    /\ ret.changed /\ ret.from = "CLOSED" /\ ret.to = "OPEN"
    /\ now >= 2
    /\ breaker.buckets[ret.key].openedAtMs = now
    /\ \E j \in DOMAIN breaker.buckets : breaker.buckets[j].state = "CLOSED"

\* C26 (openedAtMs tracks OPEN): in every bucket openedAtMs is set if and
\* only if the state is OPEN, and a step that leaves a key OPEN leaves its
\* openedAtMs unchanged.
C26_OpenedAtTracksOpen ==
    /\ [](\A k \in DOMAIN breaker.buckets :
             breaker.buckets[k].openedAtMs # Undefined <=> breaker.buckets[k].state = "OPEN")
    /\ [][ \A k \in DOMAIN breaker.buckets :
             (breaker.buckets[k].state = "OPEN" /\ breaker'.buckets[k].state = "OPEN") =>
                 breaker'.buckets[k].openedAtMs = breaker.buckets[k].openedAtMs
         ]_vars

\* C26's case: one key is OPEN since an earlier time, and the other, opened
\* before, is HALF_OPEN with its openedAtMs cleared.
C26_Witness ==
    /\ \E k \in DOMAIN breaker.buckets :
          /\ breaker.buckets[k].state = "OPEN"
          /\ breaker.buckets[k].openedAtMs < now
    /\ \E k \in DOMAIN breaker.buckets :
          /\ breaker.buckets[k].state = "HALF_OPEN"
          /\ breaker.buckets[k].openedAtMs = Undefined

\* op applied to key k of breaker B at the time t: the breaker after it
Apply(op, B, k, t) ==
    IF op = "allow" THEN allow(B, k, t).breaker
    ELSE IF op = "onSuccess" THEN onSuccess(B, k).breaker
    ELSE onFailure(B, k, t).breaker

\* C27 (per-key isolation): allow, onSuccess and onFailure on key k leave
\* the bucket of every other key as it was, and create none; so for two
\* different keys two operations give the same breaker in either order.
C27_PerKeyIsolation ==
    /\ [][ \A k \in Keys :
             (ret'.op \in {"allow", "onSuccess", "onFailure"} /\ ret'.key = k) =>
                 \A j \in Keys \ {k} :
                     /\ j \in DOMAIN breaker'.buckets <=> j \in DOMAIN breaker.buckets
                     /\ j \in DOMAIN breaker.buckets =>
                            breaker'.buckets[j] = breaker.buckets[j]
         ]_vars
    /\ [](\A k \in Keys, j \in Keys, op1 \in {"allow", "onSuccess", "onFailure"},
             op2 \in {"allow", "onSuccess", "onFailure"} :
             k # j => Apply(op2, Apply(op1, breaker, k, now), j, now)
                        = Apply(op1, Apply(op2, breaker, j, now), k, now))

\* C27's case: a failure has just opened one key while the other key stays
\* CLOSED with a failure in its window.
C27_Witness ==
    /\ ret.op = "onFailure"
    /\ ret.changed /\ ret.to = "OPEN"
    /\ \E j \in DOMAIN breaker.buckets \ {ret.key} :
          /\ breaker.buckets[j].state = "CLOSED"
          /\ failures(breaker.buckets[j].window) = 1

----------------------------------------------------------------------------
(* The pipeline and the breaker together, under Spec *)

\* C21 (half-open does not get stuck): a request() on a HALF_OPEN key for
\* which no request is in progress -- every request admitted for the key
\* has settled or was rejected -- is allowed by the breaker.
C21_HalfOpenNotStuck ==
    [][ \A k \in Keys :
          ( /\ ret'.op = "request" /\ ret'.key = k
            /\ StateOf(breaker, k) = "HALF_OPEN"
            /\ \A r \in Requests : req[r].pc # "idle" => req[r].key # k ) =>
              ret'.allowed
      ]_vars

\* the breaker:state events among the events evs
BreakerStateEvents(evs) == SelectSeq(evs, LAMBDA e : e.name = "breaker:state")

\* C28 (state-change events): the step in which request() reports the
\* result of its transport call emits one breaker:state event, with its
\* key and the states before and after, before request:success or
\* request:failure, when the report changes the state of the key, and no
\* breaker:state event when it does not.
C28_StateChangeEvents ==
    [][ ret'.op = "complete" =>
          LET k   == ret'.key
              s   == breaker.buckets[k].state
              s1  == breaker'.buckets[k].state
              evs == BreakerStateEvents(ret'.events)
          IN  IF s1 # s
              THEN /\ ret'.changed
                   /\ evs = <<Event("breaker:state", k, s, s1)>>
                   /\ ret'.events[1] = evs[1]
                   /\ Len(ret'.events) = 2
              ELSE /\ ~ret'.changed
                   /\ evs = <<>>
                   /\ Len(ret'.events) = 1
      ]_vars

\* C28's case: a probe has just succeeded and closed its key, and
\* breaker:state from HALF_OPEN to CLOSED was emitted before request:success.
C28_Witness ==
    /\ ret.op = "complete"
    /\ ret.result = "status<500"
    /\ ret.events = <<Event("breaker:state", ret.key, "HALF_OPEN", "CLOSED"),
                      Event("request:success", ret.key, "none", "none")>>
    /\ StateOf(breaker, ret.key) = "CLOSED"

============================================================================
